---- MODULE Spec2Model ----
(***************************************************************************)
(* Waste Composition API (src/step1.py): a FastAPI service with two        *)
(* routes.  GET /waste-composition/{area} runs the pipeline                *)
(* get_waste_composition: a retrieval call (client.responses.create), an   *)
(* extraction call (client.responses.parse) and a normalisation of the two *)
(* results into one response object.  GET /health returns a fixed payload. *)
(*                                                                         *)
(* Percentages are Python floats in the source.  They are modelled in      *)
(* hundredths of a percent (40.0 is 4000, the tolerance 0.03 is 3); the    *)
(* values drawn for them keep every sum away from the tolerance boundary,  *)
(* where binary floating point and exact arithmetic could disagree.        *)
(* Strings that are concatenated are sequences of tokens.                  *)
(***************************************************************************)
EXTENDS Integers, Sequences, FiniteSets, TLC

VARIABLES req, health

vars == <<req, health>>

(***************************************************************************)
(* Bounds of the model.                                                    *)
(***************************************************************************)
NumReqs == 2
MaxAnnots == 2
MaxEntries == 3

Reqs == 1..NumReqs

(***************************************************************************)
(* Program constants.                                                      *)
(***************************************************************************)
HTTP_200_OK == 200
HTTP_500_INTERNAL_SERVER_ERROR == 500
HundredPercent == 10000
Tolerance == 3

(***************************************************************************)
(* Input domains.                                                          *)
(***************************************************************************)
Areas == {"90210", "not-a-zip"}
Texts == {<<"t1">>, <<"t2">>}
URLs == {"u1", "u2"}
Names == {"food", "glass"}
Pcts == {-500, 4000, 5998, 6000}

SeqsUpTo(S, n) == UNION {[1..k -> S] : k \in 0..n}

\* An annotation of the retrieval text.  Only a url_citation carries a url;
\* reading .url of any other annotation type raises AttributeError.
UrlCitation(u) == [type |-> "url_citation", url |-> u]
FileCitation == [type |-> "file_citation", url |-> ""]
Annotations == {UrlCitation(u) : u \in URLs} \cup {FileCitation}

WasteComposition == [composition_name : Names, composition_percentage : Pcts]

\* What client.responses.create can do: raise, return a response without a
\* text message at output[1], or return text with annotations.
RetrievalRaise == [kind |-> "raise", text |-> <<>>, annotations |-> <<>>]
RetrievalMalformed == [kind |-> "malformed", text |-> <<>>, annotations |-> <<>>]
RetrievalOk(t, a) == [kind |-> "ok", text |-> t, annotations |-> a]
NoResponse == [kind |-> "none", text |-> <<>>, annotations |-> <<>>]

RetrievalOutcomes ==
    {RetrievalRaise, RetrievalMalformed}
      \cup {RetrievalOk(t, a) : t \in Texts, a \in SeqsUpTo(Annotations, MaxAnnots)}

\* What client.responses.parse can do: raise, return with output_parsed None,
\* or return a parsed WasteCompositionResponse.
ExtractionRaise == [kind |-> "raise", composition_dict |-> <<>>]
ExtractionNoParse == [kind |-> "noparse", composition_dict |-> <<>>]
ExtractionOk(c) == [kind |-> "ok", composition_dict |-> c]
NoFormatted == [kind |-> "none", composition_dict |-> <<>>]

ExtractionOutcomes ==
    {ExtractionRaise, ExtractionNoParse}
      \cup {ExtractionOk(c) : c \in SeqsUpTo(WasteComposition, MaxEntries)}

\* The smaller provider behaviours used when several requests interleave.
ConcRetrievalOutcomes ==
    {RetrievalRaise, RetrievalMalformed,
     RetrievalOk(<<"t1">>, <<>>),
     RetrievalOk(<<"t2">>, <<UrlCitation("u1")>>)}

ConcExtractionOutcomes ==
    {ExtractionRaise,
     ExtractionOk(<<>>),
     ExtractionOk(<<[composition_name |-> "food", composition_percentage |-> 4000],
                    [composition_name |-> "glass", composition_percentage |-> 6000]>>),
     ExtractionOk(<<[composition_name |-> "food", composition_percentage |-> 4000],
                    [composition_name |-> "food", composition_percentage |-> 5998]>>)}

(***************************************************************************)
(* Prompts.                                                                *)
(***************************************************************************)
RetrievalPrompt(area) ==
    <<"What is the composition of Muncipal Solid Waste for area ", area, "? ...">>

ExtractionInstruction ==
    <<"You are responsible for extracting the following elements ... given below:">>

\* Variant: the retrieval text is left out of the extraction input.
ExtractionInputMut(structured_result) == ExtractionInstruction

ExtractionInput(structured_result) == ExtractionInstruction \o structured_result

(***************************************************************************)
(* Response normaliser.                                                    *)
(***************************************************************************)
Ok(v) == [exc |-> "", value |-> v]
Raise(e) == [exc |-> e, value |-> <<>>]

RECURSIVE CollectFrom(_, _, _)
CollectFrom(annotations, i, dictionary_link) ==
    IF i > Len(annotations) THEN Ok(dictionary_link)
    ELSE IF annotations[i].type # "url_citation" THEN Raise("AttributeError")
    ELSE CollectFrom(annotations, i + 1, Append(dictionary_link, annotations[i].url))

RECURSIVE DedupFrom(_, _, _)
DedupFrom(annotations, i, dictionary_link) ==
    IF i > Len(annotations) THEN Ok(dictionary_link)
    ELSE IF annotations[i].type # "url_citation" THEN Raise("AttributeError")
    ELSE IF \E j \in 1..Len(dictionary_link) : dictionary_link[j] = annotations[i].url
         THEN DedupFrom(annotations, i + 1, dictionary_link)
    ELSE DedupFrom(annotations, i + 1, Append(dictionary_link, annotations[i].url))

\* Variant: repeated URLs are dropped.
CollectCitationsMut(annotations) == DedupFrom(annotations, 1, <<>>)

CollectCitations(annotations) == CollectFrom(annotations, 1, <<>>)

\* A Python dict: a sequence of <<key, value>> pairs with distinct keys, in
\* insertion order.  d[k] = v replaces the value of an existing key in place.
DictKeys(d) == {d[i][1] : i \in 1..Len(d)}

DictGet(d, k) == d[CHOOSE i \in 1..Len(d) : d[i][1] = k][2]

\* Variant: the first value of a key is kept.
DictSetMut(d, k, v) ==
    IF k \in DictKeys(d) THEN d ELSE Append(d, <<k, v>>)

DictSet(d, k, v) ==
    IF k \in DictKeys(d)
    THEN [i \in 1..Len(d) |-> IF d[i][1] = k THEN <<k, v>> ELSE d[i]]
    ELSE Append(d, <<k, v>>)

RECURSIVE DictSum(_)
DictSum(d) == IF d = <<>> THEN 0 ELSE d[1][2] + DictSum(Tail(d))

Abs(x) == IF x < 0 THEN -x ELSE x

\* Variant: the dict is shared with another invocation.
NewDictMut(r) ==
    IF \E s \in Reqs : s # r /\ req[s].status = HTTP_200_OK
    THEN LET s == CHOOSE s \in Reqs : s # r /\ req[s].status = HTTP_200_OK
         IN  req[s].body.items[1].composition
    ELSE <<>>

\* dictionary_composition = dict(): a fresh local of request r's invocation.
NewDict(r) == <<>>

RECURSIVE BuildFrom(_, _, _)
BuildFrom(entries, i, dictionary_composition) ==
    IF i > Len(entries) THEN dictionary_composition
    ELSE BuildFrom(entries, i + 1,
                   DictSet(dictionary_composition,
                           entries[i].composition_name,
                           entries[i].composition_percentage))

RECURSIVE BuildFromMut(_, _, _)
BuildFromMut(entries, i, dictionary_composition) ==
    IF i > Len(entries) THEN dictionary_composition
    ELSE BuildFromMut(entries, i + 1,
                      DictSet(dictionary_composition,
                              entries[i].composition_name,
                              entries[i].composition_percentage \div 100))

\* Variant: percentages are stored as fractions.
BuildCompositionMut(entries, d0) == BuildFromMut(entries, 1, d0)

BuildComposition(entries, d0) == BuildFrom(entries, 1, d0)

ResponseData(structured_result, dictionary_link, dictionary_composition) ==
    [output |-> structured_result,
     citations |-> dictionary_link,
     composition |-> dictionary_composition]

\* What get_waste_composition hands to its caller: a returned value (the
\* one-element list, or a WasteCompositionResponse object) or an exception.
Returned(type, items, warned) ==
    [kind |-> "return", exc |-> "", type |-> type, items |-> items, warned |-> warned]
Raised(e) ==
    [kind |-> "raise", exc |-> e, type |-> "", items |-> <<>>, warned |-> FALSE]
NoOutcome ==
    [kind |-> "none", exc |-> "", type |-> "", items |-> <<>>, warned |-> FALSE]

\* Variant: a sum off 100% rejects the result.
SumCheckMut(response_data, total_percentage) ==
    IF Abs(total_percentage - HundredPercent) > Tolerance
    THEN Raised("ValueError")
    ELSE Returned("list", <<response_data>>, FALSE)

\* The sum check: both branches return [response_data].
SumCheck(response_data, total_percentage) ==
    IF Abs(total_percentage - HundredPercent) > Tolerance
    THEN Returned("list", <<response_data>>, TRUE)
    ELSE Returned("list", <<response_data>>, FALSE)

\* The try body after the extraction call has returned.
Normalize(r, response, response_formatted) ==
    LET links == CollectCitations(response.annotations)
    IN  IF links.exc # "" THEN Raised(links.exc)
        ELSE IF response_formatted.kind = "noparse" THEN Raised("AttributeError")
        ELSE LET dictionary_composition ==
                     BuildComposition(response_formatted.composition_dict, NewDict(r))
             IN  SumCheck(ResponseData(response.text, links.value, dictionary_composition),
                          DictSum(dictionary_composition))

(***************************************************************************)
(* Error paths.                                                            *)
(***************************************************************************)
\* Constructing the pydantic model WasteCompositionResponse validates that
\* every declared field is given; an undeclared keyword is ignored.
RequiredFields == {"composition_dict", "citation_dict"}

WasteCompositionResponse(kwargs) ==
    IF RequiredFields \subseteq kwargs
    THEN Returned("model", <<>>, FALSE)
    ELSE Raised("ValidationError")

\* Variant: the except clause returns an empty result in the success shape.
PipelineExceptMut(e) ==
    Returned("list", <<ResponseData(<<>>, <<>>, <<>>)>>, FALSE)

\* except Exception as e: of get_waste_composition.
PipelineExcept(e) == WasteCompositionResponse({"citation_dict", "message"})

\* json.dumps of the content handed to JSONResponse.
JsonSerializable(result) == result.type = "list"

ArrayBody(items) == [json |-> "array", items |-> items, keys |-> {}, detail |-> <<>>]
DetailBody(detail) ==
    [json |-> "object", items |-> <<>>, keys |-> {"detail"}, detail |-> detail]
TextBody == [json |-> "text", items |-> <<>>, keys |-> {}, detail |-> <<>>]
NoBody == [json |-> "none", items |-> <<>>, keys |-> {}, detail |-> <<>>]

HTTPException(status_code, detail) ==
    [status |-> status_code, body |-> DetailBody(detail)]

\* Variant: failures are left to the server default, a plain-text 500.
waste_composition_endpoint_Mut(result) ==
    IF result.kind = "raise"
    THEN [status |-> HTTP_500_INTERNAL_SERVER_ERROR, body |-> TextBody]
    ELSE IF JsonSerializable(result)
    THEN [status |-> HTTP_200_OK, body |-> ArrayBody(result.items)]
    ELSE [status |-> HTTP_500_INTERNAL_SERVER_ERROR, body |-> TextBody]

\* The try/except of waste_composition_endpoint around the awaited pipeline.
waste_composition_endpoint(result) ==
    IF result.kind = "raise"
    THEN HTTPException(HTTP_500_INTERNAL_SERVER_ERROR,
                       <<"Internal server error: ", result.exc>>)
    ELSE IF JsonSerializable(result)
    THEN [status |-> HTTP_200_OK, body |-> ArrayBody(result.items)]
    ELSE HTTPException(HTTP_500_INTERNAL_SERVER_ERROR,
                       <<"Internal server error: ", "TypeError">>)

\* The log lines the endpoint writes once the pipeline has handed over.
EndpointLog(result) ==
    IF result.kind = "raise" THEN <<<<"ERROR", "Internal server error">>>>
    ELSE IF JsonSerializable(result)
    THEN <<<<"INFO", "Successfully processed request">>>>
    ELSE <<<<"INFO", "Successfully processed request">>,
           <<"ERROR", "Internal server error">>>>

\* The log lines of the normalisation.
NormalizeLog(response, response_formatted, outcome) ==
    LET links == CollectCitations(response.annotations)
    IN  IF links.exc # "" THEN <<>>
        ELSE (IF Len(links.value) > 0 THEN <<<<"INFO", "Extracted citations">>>> ELSE <<>>)
             \o (IF response_formatted.kind = "ok"
                    /\ Len(response_formatted.composition_dict) > 0
                 THEN <<<<"INFO", "Extracted composition data">>>> ELSE <<>>)
             \o (IF outcome.kind = "return" /\ outcome.warned
                 THEN <<<<"WARNING", "Total percentage does not sum to 100%">>>>
                 ELSE IF outcome.kind = "return"
                 THEN <<<<"INFO", "Successfully processed composition data">>>>
                 ELSE <<>>)

(***************************************************************************)
(* State.                                                                  *)
(***************************************************************************)
IdleReq ==
    [pc |-> "idle", area |-> "",
     retrievalCalls |-> 0, extractionCalls |-> 0,
     retrievalInput |-> <<>>, extractionInput |-> <<>>,
     response |-> NoResponse, response_formatted |-> NoFormatted,
     tryExc |-> "", pipeline |-> NoOutcome,
     status |-> 0, body |-> NoBody, log |-> <<>>]

HealthPayload == [status |-> "healthy", version |-> "1.0.0"]
NoPayload == [status |-> "", version |-> ""]
IdleHealth == [pc |-> "idle", body |-> NoPayload, log |-> <<>>]

Init ==
    /\ req = [r \in Reqs |-> IdleReq]
    /\ health = IdleHealth

(***************************************************************************)
(* Operations.                                                             *)
(***************************************************************************)
\* The server hands an incoming request the first free slot.
FreeSlot(r) ==
    /\ req[r].pc = "idle"
    /\ \A s \in Reqs : s < r => req[s].pc # "idle"

\* The route is entered and the pipeline starts, up to the retrieval call.
Receive(r, area) ==
    /\ FreeSlot(r)
    /\ req' = [req EXCEPT ![r] =
                 [IdleReq EXCEPT !.pc = "retrieval", !.area = area,
                                 !.log = <<<<"INFO", "Received request">>,
                                           <<"INFO", "Processing waste composition request">>>>]]
    /\ UNCHANGED health

\* The pipeline fails in its try body with exception e: the except clause
\* runs, then the endpoint turns what the pipeline hands over into a response.
Fail(r, e, extraLog) ==
    LET result == PipelineExcept(e)
        http == waste_composition_endpoint(result)
    IN  [req[r] EXCEPT !.pc = "responded",
                       !.tryExc = e,
                       !.pipeline = result,
                       !.status = http.status,
                       !.body = http.body,
                       !.log = @ \o extraLog \o <<<<"ERROR", "Error processing area">>>>
                                 \o EndpointLog(result)]

\* client.responses.create returns or raises; on success the text at
\* output[1].content[0] is read and the extraction call is prepared.
Retrieve(r, outcome) ==
    LET called == [req[r] EXCEPT !.retrievalCalls = @ + 1,
                                 !.retrievalInput = RetrievalPrompt(req[r].area),
                                 !.response = outcome]
        failed(e) == [Fail(r, e, <<>>) EXCEPT
                         !.retrievalCalls = called.retrievalCalls,
                         !.retrievalInput = called.retrievalInput,
                         !.response = outcome]
    IN  IF outcome.kind = "raise" THEN failed("APIError")
        ELSE IF outcome.kind = "malformed" THEN failed("IndexError")
        ELSE [called EXCEPT !.pc = "extraction"]

RetrievalCall(r, outcomes) ==
    /\ req[r].pc = "retrieval"
    /\ \E outcome \in outcomes : req' = [req EXCEPT ![r] = Retrieve(r, outcome)]
    /\ UNCHANGED health

\* client.responses.parse returns or raises; on success the normaliser runs
\* and the endpoint answers.
Extract(r, outcome) ==
    LET input == ExtractionInput(req[r].response.text)
        result == Normalize(r, req[r].response, outcome)
        nlog == NormalizeLog(req[r].response, outcome, result)
        failed == IF outcome.kind = "raise" THEN Fail(r, "APIError", <<>>)
                  ELSE Fail(r, result.exc, nlog)
        http == waste_composition_endpoint(result)
        answered == [req[r] EXCEPT !.pc = "responded",
                                   !.pipeline = result,
                                   !.status = http.status,
                                   !.body = http.body,
                                   !.log = @ \o nlog \o EndpointLog(result)]
    IN  [(IF outcome.kind = "raise" \/ result.kind = "raise" THEN failed ELSE answered)
         EXCEPT !.extractionCalls = req[r].extractionCalls + 1,
                !.extractionInput = input,
                !.response_formatted = outcome]

ExtractionCall(r, outcomes) ==
    /\ req[r].pc = "extraction"
    /\ \E outcome \in outcomes : req' = [req EXCEPT ![r] = Extract(r, outcome)]
    /\ UNCHANGED health

\* The response has been sent; the request's objects are dropped.
Discard(r) ==
    /\ req[r].pc = "responded"
    /\ req' = [req EXCEPT ![r] = IdleReq]
    /\ UNCHANGED health

\* Variant: the payload reflects failed requests.
health_check_Mut ==
    IF \E r \in Reqs : req[r].status = HTTP_500_INTERNAL_SERVER_ERROR
    THEN [status |-> "unhealthy", version |-> "1.0.0"]
    ELSE HealthPayload

health_check == HealthPayload

HealthCheck ==
    /\ health.pc = "idle"
    /\ health' = [pc |-> "responded", body |-> health_check,
                  log |-> <<<<"INFO", "Health check requested">>>>]
    /\ UNCHANGED req

HealthDiscard ==
    /\ health.pc = "responded"
    /\ health' = IdleHealth
    /\ UNCHANGED req

(***************************************************************************)
(* Specifications.                                                         *)
(* Spec: one event loop.  The handler is a coroutine whose provider calls  *)
(* are synchronous, so a handler runs to its response, and the response is *)
(* sent and dropped, before the loop admits the next request.              *)
(* SpecConc: several workers; the steps of the requests and of the health  *)
(* check interleave freely.                                                *)
(***************************************************************************)
LoopFree == health.pc = "idle" /\ \A s \in Reqs : req[s].pc = "idle"

LoopReceive(r, area) == LoopFree /\ Receive(r, area)

LoopHealthCheck == LoopFree /\ HealthCheck

Next ==
    \/ \E r \in Reqs, area \in Areas : LoopReceive(r, area)
    \/ \E r \in Reqs : RetrievalCall(r, RetrievalOutcomes)
    \/ \E r \in Reqs : ExtractionCall(r, ExtractionOutcomes)
    \/ \E r \in Reqs : Discard(r)
    \/ LoopHealthCheck
    \/ HealthDiscard

Spec == Init /\ [][Next]_vars

NextConc ==
    \/ \E r \in Reqs, area \in Areas : Receive(r, area)
    \/ \E r \in Reqs : RetrievalCall(r, ConcRetrievalOutcomes)
    \/ \E r \in Reqs : ExtractionCall(r, ConcExtractionOutcomes)
    \/ \E r \in Reqs : Discard(r)
    \/ HealthCheck
    \/ HealthDiscard

SpecConc == Init /\ [][NextConc]_vars

TypeOK ==
    /\ \A r \in Reqs :
         /\ req[r].pc \in {"idle", "retrieval", "extraction", "responded"}
         /\ req[r].status \in {0, HTTP_200_OK, HTTP_500_INTERNAL_SERVER_ERROR}
         /\ req[r].area \in Areas \cup {""}
    /\ health.pc \in {"idle", "responded"}

(***************************************************************************)
(* Properties.                                                             *)
(***************************************************************************)
Responded(r) == req[r].pc = "responded"
Answered200(r) == Responded(r) /\ req[r].status = HTTP_200_OK
Data(r) == req[r].body.items[1]
Entries(r) == req[r].response_formatted.composition_dict
WarningLine == <<"WARNING", "Total percentage does not sum to 100%">>
Logged(r, line) == \E i \in 1..Len(req[r].log) : req[r].log[i] = line
ProviderFailed(r) ==
    \/ req[r].response.kind \in {"raise", "malformed"}
    \/ req[r].response_formatted.kind = "raise"

\* C1: every answered waste-composition request has status 200 with a JSON
\* array of exactly one element as body, or status 500 with a JSON object
\* carrying a detail field; no other status or body shape is ever sent.
C1_TwoOutcomes ==
    \A r \in Reqs :
      Responded(r) =>
        \/ /\ req[r].status = HTTP_200_OK
           /\ req[r].body.json = "array"
           /\ Len(req[r].body.items) = 1
        \/ /\ req[r].status = HTTP_500_INTERNAL_SERVER_ERROR
           /\ req[r].body.json = "object"
           /\ "detail" \in req[r].body.keys
           /\ req[r].body.detail # <<>>

C1_Witness ==
    \E r \in Reqs :
      /\ Responded(r)
      /\ req[r].status = HTTP_500_INTERNAL_SERVER_ERROR
      /\ req[r].response.kind = "ok"
      /\ req[r].response_formatted.kind = "noparse"

\* C2: when the retrieval or the extraction call raises, or the retrieval
\* response is malformed, the request is answered with status 500 and a
\* detail message, the body holds no result element, and the failed call
\* was made exactly once (no retry).
C2_ProviderFailure ==
    \A r \in Reqs :
      (Responded(r) /\ ProviderFailed(r)) =>
        /\ req[r].status = HTTP_500_INTERNAL_SERVER_ERROR
        /\ "detail" \in req[r].body.keys
        /\ req[r].body.detail # <<>>
        /\ req[r].body.items = <<>>
        /\ req[r].retrievalCalls = 1
        /\ (req[r].response.kind \in {"raise", "malformed"} => req[r].extractionCalls = 0)
        /\ (req[r].response_formatted.kind = "raise" => req[r].extractionCalls = 1)

C2_Witness ==
    \E r \in Reqs :
      /\ Responded(r)
      /\ req[r].response.kind = "malformed"
      /\ req[r].status = HTTP_500_INTERNAL_SERVER_ERROR

\* C3: whenever the try body of get_waste_composition raises, the function
\* returns a structured error object to its caller and raises nothing.
C3_ErrorObjectReturned ==
    \A r \in Reqs :
      (Responded(r) /\ req[r].tryExc # "") =>
        /\ req[r].pipeline.kind = "return"
        /\ req[r].pipeline.type = "model"

\* C4: in every 200 response the citations list has one element per
\* annotation of the retrieval result, the i-th being the i-th annotation's
\* URL (order and duplicates kept); no annotations give an empty list.
C4_Citations ==
    \A r \in Reqs :
      Answered200(r) =>
        /\ Len(Data(r).citations) = Len(req[r].response.annotations)
        /\ \A i \in 1..Len(req[r].response.annotations) :
             Data(r).citations[i] = req[r].response.annotations[i].url

C4_Witness ==
    \E r \in Reqs :
      /\ Answered200(r)
      /\ Len(req[r].response.annotations) = 2
      /\ req[r].response.annotations[1] = req[r].response.annotations[2]
      /\ Len(Data(r).citations) = 2

\* C5: the composition mapping has exactly one key per distinct category
\* name of the extracted entries, and each key's value is the percentage of
\* the last entry carrying that name.
LastIndex(entries, k) ==
    CHOOSE i \in 1..Len(entries) :
      /\ entries[i].composition_name = k
      /\ \A j \in (i + 1)..Len(entries) : entries[j].composition_name # k

C5_LastWriteWins ==
    \A r \in Reqs :
      Answered200(r) =>
        LET comp == Data(r).composition
            names == {Entries(r)[i].composition_name : i \in 1..Len(Entries(r))}
        IN  /\ DictKeys(comp) = names
            /\ Len(comp) = Cardinality(names)
            /\ \A k \in names :
                 DictGet(comp, k) =
                   Entries(r)[LastIndex(Entries(r), k)].composition_percentage

C5_Witness ==
    \E r \in Reqs :
      /\ Answered200(r)
      /\ Len(Entries(r)) = 3
      /\ Entries(r)[1].composition_name = Entries(r)[3].composition_name
      /\ Entries(r)[1].composition_name # Entries(r)[2].composition_name
      /\ Entries(r)[1].composition_percentage # Entries(r)[3].composition_percentage
      /\ Len(Data(r).composition) = 2

\* C6: the sum check never changes the answer.  Whenever both provider calls
\* returned usable results the status is 200 and the body is the one-element
\* array of output, citations and composition built from them, whatever the
\* sum of the composition values; a warning is logged exactly when the sum
\* is further than 0.03 from 100.0.  An empty extraction without annotations
\* gives 200 with empty citations and an empty composition.
Usable(r) ==
    /\ req[r].response.kind = "ok"
    /\ req[r].response_formatted.kind = "ok"
    /\ \A i \in 1..Len(req[r].response.annotations) :
         req[r].response.annotations[i].type = "url_citation"

C6_SumCheckObservational ==
    \A r \in Reqs :
      (Responded(r) /\ Usable(r)) =>
        /\ req[r].status = HTTP_200_OK
        /\ Len(req[r].body.items) = 1
        /\ Data(r).output = req[r].response.text
        /\ Len(Data(r).citations) = Len(req[r].response.annotations)
        /\ DictKeys(Data(r).composition) =
             {Entries(r)[i].composition_name : i \in 1..Len(Entries(r))}
        /\ Logged(r, WarningLine) <=>
             (Abs(DictSum(Data(r).composition) - HundredPercent) > Tolerance)
        /\ (Entries(r) = <<>> /\ req[r].response.annotations = <<>>) =>
             (Data(r).citations = <<>> /\ Data(r).composition = <<>>)

C6_Witness ==
    \E r \in Reqs :
      /\ Answered200(r)
      /\ Entries(r) = <<>>
      /\ req[r].response.annotations = <<>>
      /\ Logged(r, WarningLine)
      /\ Data(r).composition = <<>>

\* C7 as stated: in every 200 response every composition value is
\* non-negative.
C7_NonNegative ==
    \A r \in Reqs :
      Answered200(r) =>
        \A i \in 1..Len(Data(r).composition) : Data(r).composition[i][2] >= 0

\* C7 as amended: in every 200 response every composition value is the
\* percentage of an extracted entry of that name, passed through without a
\* sign check; the values are non-negative whenever every extracted
\* percentage is.
C7_PassThrough ==
    \A r \in Reqs :
      Answered200(r) =>
        /\ \A i \in 1..Len(Data(r).composition) :
             \E j \in 1..Len(Entries(r)) :
               /\ Entries(r)[j].composition_name = Data(r).composition[i][1]
               /\ Entries(r)[j].composition_percentage = Data(r).composition[i][2]
        /\ (\A j \in 1..Len(Entries(r)) : Entries(r)[j].composition_percentage >= 0)
             => \A i \in 1..Len(Data(r).composition) : Data(r).composition[i][2] >= 0

C7_Witness ==
    \E r \in Reqs :
      /\ Answered200(r)
      /\ \E i \in 1..Len(Data(r).composition) : Data(r).composition[i][2] < 0

\* C8: every answer of GET /health is the payload {status: "healthy",
\* version: "1.0.0"}, whatever the requests are doing, and a step of the
\* health handler makes no provider call: it leaves every request untouched.
C8_Health ==
    /\ [](health.pc = "responded" => health.body = HealthPayload)
    /\ [][health' # health => req' = req]_vars

C8_Witness ==
    /\ health.pc = "responded"
    /\ health.body = HealthPayload
    /\ \E r \in Reqs : Responded(r) /\ ProviderFailed(r)
    /\ \E r \in Reqs : req[r].pc \in {"retrieval", "extraction"}

\* C9: within a request the retrieval call is made exactly once; the
\* extraction call is made at most once, only after the retrieval call has
\* returned a response with text, with the fixed instruction followed by
\* that text as input; a failed retrieval is never followed by an extraction
\* call; a 200 answer is given only after both calls have succeeded.
C9_State ==
    \A r \in Reqs :
      /\ req[r].retrievalCalls = (IF req[r].pc \in {"extraction", "responded"} THEN 1 ELSE 0)
      /\ req[r].extractionCalls <= 1
      /\ req[r].extractionCalls = 1 =>
           /\ req[r].response.kind = "ok"
           /\ req[r].retrievalCalls = 1
           /\ req[r].extractionInput = ExtractionInstruction \o req[r].response.text
      /\ req[r].response.kind \in {"raise", "malformed"} => req[r].extractionCalls = 0
      /\ req[r].status = HTTP_200_OK =>
           /\ req[r].response.kind = "ok"
           /\ req[r].response_formatted.kind = "ok"
           /\ req[r].retrievalCalls = 1
           /\ req[r].extractionCalls = 1

C9_CallOrder ==
    /\ []C9_State
    /\ [][\A r \in Reqs :
            req'[r].extractionCalls > req[r].extractionCalls =>
              /\ req[r].response.kind = "ok"
              /\ req[r].retrievalCalls = 1
              /\ req[r].status = 0]_vars

C9_Witness ==
    \E r \in Reqs :
      /\ Answered200(r)
      /\ req[r].retrievalCalls = 1
      /\ req[r].extractionCalls = 1
      /\ req[r].extractionInput = ExtractionInstruction \o <<"t2">>

\* C10: under every interleaving, a step of one request leaves every other
\* request untouched, every answer is built from the request's own provider
\* results only, and two requests with the same area and the same provider
\* results get the same answer.
C10_OwnData ==
    \A r \in Reqs :
      /\ Answered200(r) =>
           /\ Data(r).output = req[r].response.text
           /\ Len(Data(r).citations) = Len(req[r].response.annotations)
           /\ \A i \in 1..Len(Data(r).citations) :
                Data(r).citations[i] = req[r].response.annotations[i].url
           /\ DictKeys(Data(r).composition) =
                {Entries(r)[i].composition_name : i \in 1..Len(Entries(r))}
      /\ Responded(r) =>
           (req[r].status = HTTP_500_INTERNAL_SERVER_ERROR
              <=> (ProviderFailed(r) \/ ~Usable(r)))
      /\ \A s \in Reqs :
           (/\ Responded(r) /\ Responded(s)
            /\ req[r].area = req[s].area
            /\ req[r].response = req[s].response
            /\ req[r].response_formatted = req[s].response_formatted)
             => (req[r].status = req[s].status /\ req[r].body = req[s].body)

C10_Independent ==
    /\ []C10_OwnData
    /\ [][\A r \in Reqs :
            req'[r] # req[r] => \A s \in Reqs \ {r} : req'[s] = req[s]]_vars

C10_Witness ==
    \E r, s \in Reqs :
      /\ r # s
      /\ Responded(r) /\ req[r].status = HTTP_500_INTERNAL_SERVER_ERROR
      /\ Answered200(s)
      /\ Len(Entries(s)) = 2
      /\ Entries(s)[1].composition_name = Entries(s)[2].composition_name
      /\ Len(Data(s).composition) = 1

====
